---- MODULE Spec2Model ----
(***************************************************************************)
(* Model of the session-idle monitor of systemd-motion (src/motion/core.py). *)
(*                                                                         *)
(* The monitor is one coroutine.  Its positions (pc) are the places where  *)
(* it can be suspended or has a step of start-up still to run:             *)
(*   "load_config" -> "setup_logging" -> "read_settings" -> "connect"      *)
(*   -> "query" -> ("simulate" ->) "sleep" -> "query" ...   and "exited".  *)
(* Time is in whole seconds.  Optional values (Python's None) are          *)
(* sequences of length 0 or 1.                                             *)
(***************************************************************************)
EXTENDS Integers, Sequences, FiniteSets, TLC

VARIABLES
    file,                   \* content of ~/.config/systemd-motion/behavior.json
    DBUS_AVAILABLE,         \* whether dbus_next could be imported
    pc,                     \* position of the monitor coroutine
    exitReason,             \* why monitor()/main() ended ("" while running)
    config,                 \* what load_config() returned
    idle_minutes,
    simulate_after_minutes,
    simulate_activity,
    system_bus,             \* TRUE: a connected bus object, FALSE: None
    session_bus,
    last_idle_state,        \* Optional[bool]
    idle_since,             \* Optional[float]
    now,                    \* time.time() read by the current iteration
    clock,                  \* the wall clock
    tick,                   \* number of iterations started
    log,                    \* records appended to the log file, in order
    samples,                \* history: the idle-hint of every completed query
    simCalls,               \* history: every simulate_user_activity_session call
    callLog                 \* history: the calls a caller other than monitor()
                            \* (a test, a tool) made of the module's functions

vars == <<file, DBUS_AVAILABLE, pc, exitReason, config, idle_minutes,
          simulate_after_minutes, simulate_activity, system_bus, session_bus,
          last_idle_state, idle_since, now, clock, tick, log, samples, simCalls,
          callLog>>

----------------------------------------------------------------------------
(* Bounds of the model *)

\* number of iterations of the poll loop that are explored
MaxTicks == 5

\* number of direct calls of the module's functions that are explored
MaxCalls == 2
MaxRestarts == 1
IdleFromTick == 1

\* the longest time (seconds) a simulate call takes to return; the sleep of
\* line 149 starts only then, so the next iteration starts that much later
MaxCallSeconds == 15

----------------------------------------------------------------------------
(* Optional values *)

None == <<>>
Some(x) == <<x>>
IsNone(o) == o = <<>>
Val(o) == o[1]

OptBool == {None, Some(TRUE), Some(FALSE)}

----------------------------------------------------------------------------
(* JSON values and the configuration file *)

JInt(n)  == [type |-> "int",  n |-> n, b |-> FALSE, s |-> ""]
JBool(b) == [type |-> "bool", n |-> 0, b |-> b,     s |-> ""]
JStr(s)  == [type |-> "str",  n |-> 0, b |-> FALSE, s |-> s]

ConfigKeys == {"idle_minutes", "simulate_after_minutes", "simulate_activity"}

\* a JSON object: a function from the keys present to their values
Obj1(k1, v1) == [k \in {k1} |-> v1]
Obj2(k1, v1, k2, v2) == [k \in {k1, k2} |-> IF k = k1 THEN v1 ELSE v2]
Obj3(k1, v1, k2, v2, k3, v3) ==
    [k \in {k1, k2, k3} |-> IF k = k1 THEN v1 ELSE IF k = k2 THEN v2 ELSE v3]
EmptyObj == [k \in {} |-> JInt(0)]

\* what json.loads(config_path.read_text()) can meet
FileMissing    == [kind |-> "missing",    obj |-> EmptyObj]
FileUnreadable == [kind |-> "unreadable", obj |-> EmptyObj]
FileMalformed  == [kind |-> "malformed",  obj |-> EmptyObj]
FileObject(o)  == [kind |-> "object",     obj |-> o]

\* what load_config returns: a dict
ConfigDict(o) == [kind |-> "object", obj |-> o]

\* the local variable config before line 87 assigns it
ConfigUnset == [kind |-> "unset", obj |-> EmptyObj]

DefaultIdleMinutes == 10
DefaultSimulateAfterMinutes == 5

DefaultConfig ==
    ConfigDict(Obj3("idle_minutes", JInt(DefaultIdleMinutes),
                    "simulate_after_minutes", JInt(DefaultSimulateAfterMinutes),
                    "simulate_activity", JBool(FALSE)))

\* json.dumps: the text of a value.  A number is its sign and decimal digits,
\* a boolean the word true or false, a string its characters
RECURSIVE Digits(_)
Digits(n) == IF n < 10 THEN <<n>> ELSE Digits(n \div 10) \o <<n % 10>>

JsonToken(v) ==
    CASE v.type = "int" ->
             [kind |-> "number", neg |-> v.n < 0,
              digits |-> Digits(IF v.n < 0 THEN 0 - v.n ELSE v.n), word |-> ""]
      [] v.type = "bool" ->
             [kind |-> "word", neg |-> FALSE, digits |-> <<>>,
              word |-> IF v.b THEN "true" ELSE "false"]
      [] OTHER ->
             [kind |-> "string", neg |-> FALSE, digits |-> <<>>, word |-> v.s]

json_dumps(o) == [k \in DOMAIN o |-> JsonToken(o[k])]

\* json.loads: the value of a text
RECURSIVE Number(_)
Number(d) ==
    IF Len(d) = 1 THEN d[1]
    ELSE 10 * Number(SubSeq(d, 1, Len(d) - 1)) + d[Len(d)]

JsonValue(tok) ==
    CASE tok.kind = "number" ->
             JInt(IF tok.neg THEN 0 - Number(tok.digits) ELSE Number(tok.digits))
      [] tok.kind = "word" -> JBool(tok.word = "true")
      [] OTHER -> JStr(tok.word)

json_loads(text) == [k \in DOMAIN text |-> JsonValue(text[k])]

\* load_config if a value that is falsy (0, false) were replaced by its
\* default, as "config.get(key) or default" would
load_config_FalsyToDefault(f) ==
    IF f.kind \in {"missing", "unreadable", "malformed"}
    THEN DefaultConfig
    ELSE [kind |-> f.kind,
          obj |-> [k \in DOMAIN f.obj |->
                     IF k \in ConfigKeys /\ ~(CASE f.obj[k].type = "int"  -> f.obj[k].n # 0
                                                [] f.obj[k].type = "bool" -> f.obj[k].b
                                                [] OTHER -> f.obj[k].s # "")
                     THEN DefaultConfig.obj[k]
                     ELSE f.obj[k]]]

\* load_config without the try/except of lines 27-30: a file that cannot be
\* read or parsed gives no dict at all
load_config_NoCatch(f) ==
    IF f.kind = "missing"
    THEN DefaultConfig
    ELSE IF f.kind \in {"unreadable", "malformed"}
         THEN [kind |-> "raised", obj |-> EmptyObj]
         ELSE [kind |-> f.kind, obj |-> f.obj]

\* load_config: the parsed file when it exists and parses, else the defaults
load_config(f) ==
    IF f.kind \in {"missing", "unreadable", "malformed"}
    THEN DefaultConfig
    ELSE [kind |-> f.kind, obj |-> f.obj]

\* the file if load_config created it, with the defaults, when it is missing
FileAfterLoad_CreatesDefault(f) ==
    IF f.kind = "missing" THEN FileObject(DefaultConfig.obj) ELSE f

\* lines 24-35: load_config reads the file and never writes it
FileAfterLoad(f) == f

\* config.get if the file's values were used only when all three keys are there
ConfigGet_AllOrNothing(c, key, default) ==
    IF ConfigKeys \subseteq DOMAIN c.obj THEN c.obj[key] ELSE default

\* config.get(key, default)
ConfigGet(c, key, default) ==
    IF key \in DOMAIN c.obj THEN c.obj[key] ELSE default

\* Python's int(v): Some(n), or None when it raises
PyInt(v) ==
    CASE v.type = "int"  -> Some(v.n)
      [] v.type = "bool" -> Some(IF v.b THEN 1 ELSE 0)
      [] OTHER           -> None

\* Python's bool(v)
PyBool(v) ==
    CASE v.type = "int"  -> v.n # 0
      [] v.type = "bool" -> v.b
      [] OTHER           -> v.s # ""

\* the configuration files the monitor is started with
FilesRun ==
    { FileMissing, FileUnreadable, FileMalformed,
      FileObject(Obj1("simulate_after_minutes", JInt(1))),
      FileObject(Obj3("idle_minutes", JInt(5),
                      "simulate_after_minutes", JInt(0),
                      "simulate_activity", JBool(FALSE))),
      FileObject(Obj2("simulate_after_minutes", JInt(0),
                      "simulate_activity", JBool(TRUE))),
      FileObject(Obj3("idle_minutes", JInt(5),
                      "simulate_after_minutes", JInt(1),
                      "simulate_activity", JBool(TRUE))),
      FileObject(Obj2("simulate_after_minutes", JInt(2),
                      "simulate_activity", JBool(TRUE))) }

\* JSON documents that are objects with well-typed values: any subset of the
\* three keys, with or without a key the monitor does not know
FullObjects ==
    { [k \in ConfigKeys \cup {"theme"} |->
          CASE k = "idle_minutes"           -> JInt(a)
            [] k = "simulate_after_minutes" -> JInt(b)
            [] k = "simulate_activity"      -> JBool(c)
            [] OTHER                        -> JStr("dark")] :
        a \in {5, 10}, b \in {0, 2}, c \in BOOLEAN }

Restrict(o, keys) == [k \in keys |-> o[k]]

FilesWellFormed ==
    { FileObject(Restrict(o, S \cup U)) :
        o \in FullObjects, S \in SUBSET ConfigKeys, U \in {{}, {"theme"}} }

\* JSON documents that parse but are no object, or hold a value of another
\* type than the monitor expects
FileArray == [kind |-> "array", obj |-> EmptyObj]

FilesIllTyped ==
    { FileArray,
      FileObject(Obj1("simulate_after_minutes", JStr("abc"))),
      FileObject(Obj2("idle_minutes", JStr("ten"),
                      "simulate_activity", JBool(TRUE))),
      FileObject(Obj1("simulate_activity", JStr("false"))) }

\* the configurations a writer puts in the file with all three keys explicit
ExplicitConfigs ==
    { Obj3("idle_minutes", JInt(a), "simulate_after_minutes", JInt(b),
           "simulate_activity", JBool(c)) :
        a \in {5, 120}, b \in {0, 2}, c \in BOOLEAN }

\* every content of the configuration file that is modelled
FilesAll ==
    {FileMissing, FileUnreadable, FileMalformed}
        \cup FilesWellFormed \cup FilesIllTyped

----------------------------------------------------------------------------
(* The log *)

LogRecord(t, level, message) == [asctime |-> t, levelname |-> level, message |-> message]

IdleDetected == "Session idle detected"
SimulationFailed == "Activity simulation failed"
NoDBusStatus == "Session monitor running (no D-Bus)"
MonitorError == "Monitor error"
ConnectFailed == "D-Bus connection failed"

----------------------------------------------------------------------------
(* The steps of one iteration of the poll loop, as the code computes them *)

check_interval_seconds == 30
SecondsPerMinute == 60
StatusPeriodSeconds == 300

\* the idle clock if a failed query were taken for an active sample
UpdateIdleSince_AbsentIsActive(idle_hint, since, t) ==
    IF ~IsNone(idle_hint) /\ Val(idle_hint)
    THEN (IF IsNone(since) THEN Some(t) ELSE since)
    ELSE None

\* the idle clock if every idle sample started it again
UpdateIdleSince_EveryIdleRestarts(idle_hint, since, t) ==
    IF IsNone(idle_hint) THEN since
    ELSE IF Val(idle_hint) THEN Some(t) ELSE None

\* lines 119-124: the idle clock after a sample
UpdateIdleSince(idle_hint, since, t) ==
    IF IsNone(idle_hint) THEN since
    ELSE IF Val(idle_hint)
         THEN (IF IsNone(since) THEN Some(t) ELSE since)
         ELSE None

\* the log if every idle sample were logged, not only a change
TransitionLog_EveryIdle(idle_hint, last, t) ==
    IF ~IsNone(idle_hint) /\ Val(idle_hint)
    THEN <<LogRecord(t, "WARNING", IdleDetected)>>
    ELSE <<>>

\* the log if a change to active were logged as a change to idle is
TransitionLog_Symmetric(idle_hint, last, t) ==
    IF ~IsNone(idle_hint) /\ last # idle_hint
    THEN <<LogRecord(t, "WARNING",
                     IF Val(idle_hint) THEN IdleDetected ELSE "Session active detected")>>
    ELSE <<>>

\* lines 127-130: what a sample appends to the log
TransitionLog(idle_hint, last, t) ==
    IF ~IsNone(idle_hint) /\ last # idle_hint /\ Val(idle_hint)
    THEN <<LogRecord(t, "WARNING", IdleDetected)>>
    ELSE <<>>

\* last_idle_state if a failed query made the state unknown again
UpdateLastIdleState_AbsentForgets(idle_hint, last) ==
    IF IsNone(idle_hint) THEN None
    ELSE IF last # idle_hint THEN idle_hint ELSE last

\* lines 127-131: last_idle_state after a sample
UpdateLastIdleState(idle_hint, last) ==
    IF ~IsNone(idle_hint) /\ last # idle_hint THEN idle_hint ELSE last

\* the decision if the simulate_activity setting were not consulted
SimulateDue_IgnoresSetting(idle_hint, since, t) ==
    /\ ~IsNone(idle_hint)
    /\ Val(idle_hint)
    /\ session_bus
    /\ (IF IsNone(since) THEN 0 ELSE t - Val(since))
           >= simulate_after_minutes * SecondsPerMinute

\* the decision if only the idle clock, not this iteration's sample, were
\* consulted
SimulateDue_IgnoresSample(idle_hint, since, t) ==
    /\ ~IsNone(since)
    /\ simulate_activity
    /\ session_bus
    /\ t - Val(since) >= simulate_after_minutes * SecondsPerMinute

\* the decision if any sample with a value, idle or active, could be due
SimulateDue_AnySample(idle_hint, since, t) ==
    /\ ~IsNone(idle_hint)
    /\ simulate_activity
    /\ session_bus
    /\ (IF IsNone(since) THEN 0 ELSE t - Val(since))
           >= simulate_after_minutes * SecondsPerMinute

\* the decision if idle_minutes were a threshold the idle time had to reach too
SimulateDue_AfterIdleMinutes(idle_hint, since, t) ==
    /\ ~IsNone(idle_hint)
    /\ Val(idle_hint)
    /\ simulate_activity
    /\ session_bus
    /\ (IF IsNone(since) THEN 0 ELSE t - Val(since))
           >= simulate_after_minutes * SecondsPerMinute
    /\ (IF IsNone(since) THEN 0 ELSE t - Val(since))
           >= idle_minutes * SecondsPerMinute

\* lines 133-135: whether this iteration calls simulate_user_activity_session
SimulateDue(idle_hint, since, t) ==
    /\ ~IsNone(idle_hint)
    /\ Val(idle_hint)
    /\ simulate_activity
    /\ session_bus
    /\ (IF IsNone(since) THEN 0 ELSE t - Val(since))
           >= simulate_after_minutes * SecondsPerMinute

\* lines 141-144: the periodic status line of an iteration without a sample
NoSampleLog(idle_hint, t) ==
    IF IsNone(idle_hint) /\ t % StatusPeriodSeconds = 0
    THEN <<LogRecord(t, "WARNING", NoDBusStatus)>>
    ELSE <<>>

\* lines 137-138: what the returned simulate call appends to the log
SimulateLog(ok, t) ==
    IF ~ok THEN <<LogRecord(t, "ERROR", SimulationFailed)>> ELSE <<>>

\* the idle clock if the reset of line 140 were missing
IdleSinceAfterSimulate_NoReset(ok, since, t) == since

\* the idle clock if line 140 were run only after a successful call
IdleSinceAfterSimulate_KeepOnFailure(ok, since, t) ==
    IF ok THEN Some(t) ELSE since

\* line 140: the idle clock after the simulate call returned
IdleSinceAfterSimulate(ok, since, t) == Some(t)

\* lines 113-115: the results the query of this iteration can have
IdleHintResults == IF system_bus THEN OptBool ELSE {None}

----------------------------------------------------------------------------
(* Initial state: the process is started *)

Init ==
    /\ file \in FilesRun
    /\ DBUS_AVAILABLE \in BOOLEAN
    /\ pc = "load_config"
    /\ exitReason = ""
    /\ config = ConfigUnset
    /\ idle_minutes = 0
    /\ simulate_after_minutes = 0
    /\ simulate_activity = FALSE
    /\ system_bus = FALSE
    /\ session_bus = FALSE
    /\ last_idle_state = None
    /\ idle_since = None
    /\ now = 0
    /\ clock = 0
    /\ tick = 0
    /\ log = <<>>
    /\ samples = <<>>
    /\ simCalls = <<>>
    /\ callLog = <<>>

----------------------------------------------------------------------------
(* Start-up: monitor(), lines 87-109 *)

\* line 87
LoadConfig ==
    /\ pc = "load_config"
    /\ config' = load_config(file)
    /\ pc' = "setup_logging"
    /\ UNCHANGED <<callLog, file, DBUS_AVAILABLE, exitReason, idle_minutes,
                   simulate_after_minutes, simulate_activity, system_bus,
                   session_bus, last_idle_state, idle_since, now, clock, tick,
                   log, samples, simCalls>>

\* the log file if the handler opened it for writing, not for appending
LogAfterSetup_Truncate(ok, old) ==
    IF ok THEN <<>> ELSE old

\* lines 47-51: logging.FileHandler(log_path) opens the file in its default
\* mode "a"; what the file held stays
LogAfterSetup(ok, old) == old

\* line 88: setup_logging; mkdir or opening the log file may raise, and the
\* exception leaves monitor() and is swallowed by main()
SetupLogging(ok) ==
    /\ pc = "setup_logging"
    /\ IF ok
       THEN pc' = "read_settings" /\ UNCHANGED exitReason
       ELSE pc' = "exited" /\ exitReason' = "log_setup_failed"
    /\ log' = LogAfterSetup(ok, log)
    /\ UNCHANGED <<callLog, file, DBUS_AVAILABLE, config, idle_minutes,
                   simulate_after_minutes, simulate_activity, system_bus,
                   session_bus, last_idle_state, idle_since, now, clock, tick,
                   samples, simCalls>>

\* lines 91-93: a config that is no dict, or a value int() rejects, raises
ReadSettings ==
    /\ pc = "read_settings"
    /\ LET im == PyInt(ConfigGet(config, "idle_minutes", JInt(DefaultIdleMinutes)))
           sa == PyInt(ConfigGet(config, "simulate_after_minutes",
                                 JInt(DefaultSimulateAfterMinutes)))
           en == PyBool(ConfigGet(config, "simulate_activity", JBool(FALSE)))
       IN  IF config.kind = "object" /\ ~IsNone(im) /\ ~IsNone(sa)
           THEN /\ idle_minutes' = Val(im)
                /\ simulate_after_minutes' = Val(sa)
                /\ simulate_activity' = en
                /\ pc' = "connect"
                /\ UNCHANGED exitReason
           ELSE /\ pc' = "exited"
                /\ exitReason' = "config_error"
                /\ UNCHANGED <<idle_minutes, simulate_after_minutes, simulate_activity>>
    /\ UNCHANGED <<callLog, file, DBUS_AVAILABLE, config, system_bus, session_bus,
                   last_idle_state, idle_since, now, clock, tick, log, samples,
                   simCalls>>

\* lines 103-105: what monitor() does when a connect() raises
ConnectFailure ==
    /\ log' = Append(log, LogRecord(clock, "ERROR", ConnectFailed))
    /\ pc' = "exited"
    /\ exitReason' = "dbus_connect_failed"
    /\ UNCHANGED <<system_bus, session_bus>>

\* lines 96-109: both buses are connected, or neither is
Connect(ok) ==
    /\ pc = "connect"
    /\ IF DBUS_AVAILABLE
       THEN IF ok
            THEN /\ system_bus' = TRUE
                 /\ session_bus' = TRUE
                 /\ pc' = "query"
                 /\ UNCHANGED <<log, exitReason>>
            ELSE ConnectFailure
       ELSE /\ ok
            /\ pc' = "query"
            /\ UNCHANGED <<system_bus, session_bus, log, exitReason>>
    /\ UNCHANGED <<callLog, file, DBUS_AVAILABLE, config, idle_minutes,
                   simulate_after_minutes, simulate_activity, last_idle_state,
                   idle_since, now, clock, tick, samples, simCalls>>

----------------------------------------------------------------------------
(* The poll loop: monitor(), lines 111-149 *)

\* lines 113-136: the query returned idle_hint; the tracker is updated and
\* the iteration either calls simulate_user_activity_session or goes to sleep
QueryReturn(idle_hint) ==
    /\ pc = "query"
    /\ idle_hint \in IdleHintResults
    /\ now' = clock
    /\ LET since == UpdateIdleSince(idle_hint, idle_since, clock)
       IN  /\ idle_since' = since
           /\ last_idle_state' = UpdateLastIdleState(idle_hint, last_idle_state)
           /\ log' = log \o TransitionLog(idle_hint, last_idle_state, clock)
                         \o NoSampleLog(idle_hint, clock)
           /\ samples' = Append(samples, [h |-> idle_hint, t |-> clock])
           /\ IF SimulateDue(idle_hint, since, clock)
              THEN /\ simCalls' = Append(simCalls, [t |-> clock, result |-> "pending"])
                   /\ pc' = "simulate"
              ELSE /\ simCalls' = simCalls
                   /\ pc' = "sleep"
    /\ UNCHANGED <<callLog, file, DBUS_AVAILABLE, exitReason, config, idle_minutes,
                   simulate_after_minutes, simulate_activity, system_bus,
                   session_bus, clock, tick>>

\* lines 136-140: simulate_user_activity_session returned ok after took
\* seconds
SimulateReturn(ok, took) ==
    /\ pc = "simulate"
    /\ clock' = clock + took
    /\ log' = log \o SimulateLog(ok, clock + took)
    /\ idle_since' = IdleSinceAfterSimulate(ok, idle_since, now)
    /\ simCalls' = [simCalls EXCEPT ![Len(simCalls)].result =
                        IF ok THEN "ok" ELSE "failed"]
    /\ pc' = "sleep"
    /\ UNCHANGED <<callLog, file, DBUS_AVAILABLE, exitReason, config, idle_minutes,
                   simulate_after_minutes, simulate_activity, system_bus,
                   session_bus, last_idle_state, now, tick, samples>>

\* the loop without the except clause of line 146: the exception leaves
\* monitor()
CatchFault_Propagate ==
    /\ pc' = "exited"
    /\ exitReason' = "exception"
    /\ UNCHANGED log

\* lines 146-147: an Exception raised inside the try block is logged and the
\* iteration ends
CatchFault ==
    /\ log' = Append(log, LogRecord(clock, "ERROR", MonitorError))
    /\ pc' = "sleep"
    /\ UNCHANGED exitReason

\* an Exception raised while the iteration awaits its query (line 115) or its
\* simulate call (line 136): the rest of the try block is skipped
IterationFault ==
    /\ pc \in {"query", "simulate"}
    /\ CatchFault
    /\ simCalls' = IF pc = "simulate"
                   THEN [simCalls EXCEPT ![Len(simCalls)].result = "raised"]
                   ELSE simCalls
    /\ UNCHANGED <<callLog, file, DBUS_AVAILABLE, config, idle_minutes,
                   simulate_after_minutes, simulate_activity, system_bus,
                   session_bus, last_idle_state, idle_since, now, clock, tick,
                   samples>>

\* the loop if its ticks came from a timer that fires while the simulate
\* call of the running iteration is still awaited
SleepReturn_Timer ==
    /\ pc \in {"sleep", "simulate"}
    /\ tick + 1 < MaxTicks
    /\ tick' = tick + 1
    /\ clock' = clock + check_interval_seconds
    /\ pc' = "query"
    /\ UNCHANGED <<callLog, file, DBUS_AVAILABLE, exitReason, config, idle_minutes,
                   simulate_after_minutes, simulate_activity, system_bus,
                   session_bus, last_idle_state, idle_since, now, log, samples,
                   simCalls>>

\* line 149: the sleep is over and the next iteration starts
SleepReturn ==
    /\ pc = "sleep"
    /\ tick + 1 < MaxTicks
    /\ tick' = tick + 1
    /\ clock' = clock + check_interval_seconds
    /\ pc' = "query"
    /\ UNCHANGED <<callLog, file, DBUS_AVAILABLE, exitReason, config, idle_minutes,
                   simulate_after_minutes, simulate_activity, system_bus,
                   session_bus, last_idle_state, idle_since, now, log, samples,
                   simCalls>>

\* main(), lines 152-158: an interrupt ends asyncio.run wherever the
\* coroutine is
Shutdown ==
    /\ pc # "exited"
    /\ pc' = "exited"
    /\ exitReason' = "signal"
    /\ UNCHANGED <<callLog, file, DBUS_AVAILABLE, config, idle_minutes,
                   simulate_after_minutes, simulate_activity, system_bus,
                   session_bus, last_idle_state, idle_since, now, clock, tick,
                   log, samples, simCalls>>

Next ==
    \/ LoadConfig
    \/ \E ok \in BOOLEAN : SetupLogging(ok)
    \/ ReadSettings
    \/ \E ok \in BOOLEAN : Connect(ok)
    \/ \E idle_hint \in OptBool : QueryReturn(idle_hint)
    \/ \E ok \in BOOLEAN, took \in {0, MaxCallSeconds} : SimulateReturn(ok, took)
    \/ IterationFault
    \/ SleepReturn
    \/ Shutdown

Spec == Init /\ [][Next]_vars

\* main(), lines 152-158: what the process writes to its standard streams
\* when monitor() ends for the given reason; both handlers are `pass`, and
\* nothing else in core.py prints
MainDiagnostic(reason) == <<>>

\* the steps the process takes by itself: reading the file, setting up the
\* log, reading the settings (lines 87-93) and waking from asyncio.sleep
\* (line 149). The awaits of lines 115 and 136 carry no timeout, so whether
\* QueryReturn or SimulateReturn ever happens is up to the remote service.
LocalStep ==
    \/ LoadConfig
    \/ \E ok \in BOOLEAN : SetupLogging(ok)
    \/ ReadSettings
    \/ SleepReturn

SpecFair == Spec /\ WF_vars(LocalStep)

----------------------------------------------------------------------------
(* The monitor of a session that is idle from tick IdleFromTick on, with    *)
(* simulation enabled, both buses connected and every call answered at once *)

FilesEnabled ==
    { FileObject(Obj2("simulate_after_minutes", JInt(0),
                      "simulate_activity", JBool(TRUE))),
      FileObject(Obj3("idle_minutes", JInt(5),
                      "simulate_after_minutes", JInt(1),
                      "simulate_activity", JBool(TRUE))) }

InitIdle ==
    /\ Init
    /\ file \in FilesEnabled
    /\ DBUS_AVAILABLE

NextIdle ==
    \/ LoadConfig
    \/ SetupLogging(TRUE)
    \/ ReadSettings
    \/ Connect(TRUE)
    \/ \E idle_hint \in OptBool :
          /\ tick >= IdleFromTick => idle_hint = Some(TRUE)
          /\ QueryReturn(idle_hint)
    \/ \E ok \in BOOLEAN : SimulateReturn(ok, 0)
    \/ SleepReturn

\* the loop is scheduled again after every sleep (line 149), and in this
\* environment every awaited call returns
SpecIdle == InitIdle /\ [][NextIdle]_vars /\ WF_vars(NextIdle)

----------------------------------------------------------------------------
(* The monitor started with configurations that differ in idle_minutes,     *)
(* every simulate call answered at once                                     *)

InitThreshold ==
    /\ file \in {FileObject(o) : o \in ExplicitConfigs}
    /\ DBUS_AVAILABLE = TRUE
    /\ pc = "load_config"
    /\ exitReason = ""
    /\ config = ConfigUnset
    /\ idle_minutes = 0
    /\ simulate_after_minutes = 0
    /\ simulate_activity = FALSE
    /\ system_bus = FALSE
    /\ session_bus = FALSE
    /\ last_idle_state = None
    /\ idle_since = None
    /\ now = 0
    /\ clock = 0
    /\ tick = 0
    /\ log = <<>>
    /\ samples = <<>>
    /\ simCalls = <<>>
    /\ callLog = <<>>

NextThreshold ==
    \/ LoadConfig
    \/ SetupLogging(TRUE)
    \/ ReadSettings
    \/ Connect(TRUE)
    \/ \E idle_hint \in OptBool : QueryReturn(idle_hint)
    \/ \E ok \in BOOLEAN : SimulateReturn(ok, 0)
    \/ SleepReturn

SpecThreshold == InitThreshold /\ [][NextThreshold]_vars

----------------------------------------------------------------------------
(* Start-up alone, over every content of the configuration file: the        *)
(* monitor from its start to the first query of the poll loop               *)

InitStartup ==
    /\ file \in FilesAll
    /\ DBUS_AVAILABLE \in BOOLEAN
    /\ pc = "load_config"
    /\ exitReason = ""
    /\ config = ConfigUnset
    /\ idle_minutes = 0
    /\ simulate_after_minutes = 0
    /\ simulate_activity = FALSE
    /\ system_bus = FALSE
    /\ session_bus = FALSE
    /\ last_idle_state = None
    /\ idle_since = None
    /\ now = 0
    /\ clock = 0
    /\ tick = 0
    /\ log = <<>>
    /\ samples = <<>>
    /\ simCalls = <<>>
    /\ callLog = <<>>

NextStartup ==
    \/ LoadConfig
    \/ \E ok \in BOOLEAN : SetupLogging(ok)
    \/ ReadSettings
    \/ \E ok \in BOOLEAN : Connect(ok)
    \/ Shutdown

SpecStartup == InitStartup /\ [][NextStartup]_vars

----------------------------------------------------------------------------
(* The configuration loader called directly, as the tests call it, between  *)
(* writes of the configuration file                                         *)

\* load_config() is called and returns
CallLoadConfig ==
    /\ Len(callLog) < MaxCalls
    /\ callLog' = Append(callLog, [op |-> "load_config", arg |-> file,
                                    result |-> load_config(file)])
    /\ file' = FileAfterLoad(file)
    /\ UNCHANGED <<DBUS_AVAILABLE, pc, exitReason, config, idle_minutes,
                   simulate_after_minutes, simulate_activity, system_bus,
                   session_bus, last_idle_state, idle_since, now, clock, tick,
                   log, samples, simCalls>>

\* config_path.write_text(json.dumps(values)): the file then holds the
\* document that the text parses to
WriteConfigFile(values) ==
    /\ Len(callLog) < MaxCalls
    /\ file' = FileObject(json_loads(json_dumps(values)))
    /\ callLog' = Append(callLog, [op |-> "write", arg |-> ConfigDict(values),
                                    result |-> file'])
    /\ UNCHANGED <<DBUS_AVAILABLE, pc, exitReason, config, idle_minutes,
                   simulate_after_minutes, simulate_activity, system_bus,
                   session_bus, last_idle_state, idle_since, now, clock, tick,
                   log, samples, simCalls>>

NextLoader ==
    \/ CallLoadConfig
    \/ \E values \in ExplicitConfigs : WriteConfigFile(values)

SpecLoader == InitStartup /\ [][NextLoader]_vars

----------------------------------------------------------------------------
(* The monitor while the configuration file is rewritten and the service is *)
(* restarted under it                                                       *)

FilesReload ==
    { FileObject(Obj1("simulate_after_minutes", JInt(1))),
      FileObject(Obj2("simulate_after_minutes", JInt(0),
                      "simulate_activity", JBool(TRUE))) }

InitReload ==
    /\ Init
    /\ file \in FilesReload
    /\ DBUS_AVAILABLE

\* the monitor if its loop read the configuration again when the file changes
MonitorOnFileChange_HotReload(f) ==
    IF pc \in {"query", "simulate", "sleep"}
    THEN /\ config' = load_config(f)
         /\ idle_minutes' =
               Val(PyInt(ConfigGet(load_config(f), "idle_minutes",
                                   JInt(DefaultIdleMinutes))))
         /\ simulate_after_minutes' =
               Val(PyInt(ConfigGet(load_config(f), "simulate_after_minutes",
                                   JInt(DefaultSimulateAfterMinutes))))
         /\ simulate_activity' =
               PyBool(ConfigGet(load_config(f), "simulate_activity", JBool(FALSE)))
    ELSE UNCHANGED <<config, idle_minutes, simulate_after_minutes,
                     simulate_activity>>

\* lines 86-149: the configuration is read at lines 87-93, before the loop;
\* nothing in the loop reads the file or the config again
MonitorOnFileChange(f) ==
    UNCHANGED <<config, idle_minutes, simulate_after_minutes, simulate_activity>>

\* another program (the settings window, an editor) replaces the file
ConfigFileChanged(f) ==
    /\ f # file
    /\ file' = f
    /\ MonitorOnFileChange(f)
    /\ UNCHANGED <<callLog, DBUS_AVAILABLE, pc, exitReason, system_bus,
                   session_bus, last_idle_state, idle_since, now, clock, tick,
                   log, samples, simCalls>>

\* the service manager restarts the service: a new process runs main(); the
\* file, the log file and the clock are what they were
Restart ==
    /\ pc # "load_config"
    /\ Len(callLog) < MaxRestarts
    /\ callLog' = Append(callLog, [op |-> "restart", arg |-> file,
                                   result |-> config])
    /\ pc' = "load_config"
    /\ exitReason' = ""
    /\ config' = ConfigUnset
    /\ idle_minutes' = 0
    /\ simulate_after_minutes' = 0
    /\ simulate_activity' = FALSE
    /\ system_bus' = FALSE
    /\ session_bus' = FALSE
    /\ last_idle_state' = None
    /\ idle_since' = None
    /\ samples' = <<>>
    /\ simCalls' = <<>>
    /\ UNCHANGED <<file, DBUS_AVAILABLE, now, clock, tick, log>>

NextReload ==
    \/ LoadConfig
    \/ SetupLogging(TRUE)
    \/ ReadSettings
    \/ Connect(TRUE)
    \/ \E idle_hint \in BOOLEAN : QueryReturn(Some(idle_hint))
    \/ SimulateReturn(TRUE, 0)
    \/ SleepReturn
    \/ \E f \in FilesReload : ConfigFileChanged(f)
    \/ Restart

SpecReload == InitReload /\ [][NextReload]_vars

----------------------------------------------------------------------------
(* The log file as the diagnostic tools see it while the monitor runs.      *)
(* Paths are the components below the home directory.                       *)

APP_NAME == "systemd-motion"

\* lines 39-41 and 53: the path setup_logging returns
setup_logging_path == <<".local", "state", APP_NAME, "session.log">>

\* debug.py lines 21-27 and health.py lines 21-25
DebugLogFile == <<".local", "state", "motion", "activity.log">>

HealthLogFile == <<".local", "state", "motion", "activity.log">>

\* what a reader finds at a path once the monitor has set up its log: the
\* monitor's records at the path it writes, no file anywhere else
LogAt(path) ==
    IF path = setup_logging_path THEN Some(log) ELSE None

\* test_setup_logging: a direct call; the handler of line 48 has created the
\* file the returned path names
CallSetupLogging ==
    /\ Len(callLog) < MaxCalls
    /\ callLog' = Append(callLog,
                         [op |-> "setup_logging", arg |-> <<>>,
                          result |-> [path |-> setup_logging_path,
                                      exists |-> ~IsNone(LogAt(setup_logging_path))]])
    /\ UNCHANGED <<file, DBUS_AVAILABLE, pc, exitReason, config, idle_minutes,
                   simulate_after_minutes, simulate_activity, system_bus,
                   session_bus, last_idle_state, idle_since, now, clock, tick,
                   log, samples, simCalls>>

\* debug.py and health.py (check_log_health): the tool looks for its log
\* file and counts the entries; arg is what the monitor has logged by then
ToolReadLog(tool, path) ==
    /\ Len(callLog) < MaxCalls
    /\ pc \notin {"load_config", "setup_logging"}
    /\ callLog' = Append(callLog,
                         [op |-> tool, arg |-> log,
                          result |-> [log_exists |-> ~IsNone(LogAt(path)),
                                      total_entries |->
                                          IF IsNone(LogAt(path)) THEN 0
                                          ELSE Len(Val(LogAt(path)))]])
    /\ UNCHANGED <<file, DBUS_AVAILABLE, pc, exitReason, config, idle_minutes,
                   simulate_after_minutes, simulate_activity, system_bus,
                   session_bus, last_idle_state, idle_since, now, clock, tick,
                   log, samples, simCalls>>

NextLogTools ==
    \/ LoadConfig
    \/ SetupLogging(TRUE)
    \/ ReadSettings
    \/ Connect(TRUE)
    \/ \E idle_hint \in BOOLEAN : QueryReturn(Some(idle_hint))
    \/ SimulateReturn(TRUE, 0)
    \/ SleepReturn
    \/ CallSetupLogging
    \/ ToolReadLog("debug", DebugLogFile)
    \/ ToolReadLog("health", HealthLogFile)

SpecLogTools == InitReload /\ [][NextLogTools]_vars

----------------------------------------------------------------------------
(* The settings window and motion-ctl beside the running monitor            *)

\* core.py line 25: the file load_config reads
CoreConfigPath == <<".config", APP_NAME, "behavior.json">>

\* gui.py lines 32 and 45: the file the settings window reads and writes
GuiConfigPath == <<".config", "systemd-user", "behavior.json">>

\* control.py line 14: the unit motion-ctl starts, stops and restarts
CtlServiceName == "systemd-motion.service"

\* gui.py lines 199-202: the unit the settings window restarts
GuiServiceName == "systemd-user.service"

\* the configurations the settings window saves: all three keys, set from
\* its widgets (gui.py lines 188-190)
GuiConfigs == {o \in ExplicitConfigs : o["idle_minutes"] = JInt(5)}

\* the file load_config reads, after content was written at path
FileAfterWrite(path, content, f) ==
    IF path = CoreConfigPath THEN content ELSE f

\* systemctl --user restart: the monitor's process is replaced by a new one
ProcessRestart ==
    /\ pc' = "load_config"
    /\ exitReason' = ""
    /\ config' = ConfigUnset
    /\ idle_minutes' = 0
    /\ simulate_after_minutes' = 0
    /\ simulate_activity' = FALSE
    /\ system_bus' = FALSE
    /\ session_bus' = FALSE
    /\ last_idle_state' = None
    /\ idle_since' = None
    /\ samples' = <<>>
    /\ simCalls' = <<>>

\* gui.py lines 187-207, on_config_changed: save_config writes the file and
\* restart_service_if_running restarts the window's unit when it is active;
\* the monitor is the unit motion-ctl controls
GuiConfigChanged(values) ==
    /\ Len(callLog) < MaxCalls
    /\ callLog' = Append(callLog,
                         [op |-> "gui_config_changed", arg |-> ConfigDict(values),
                          result |-> [path |-> GuiConfigPath,
                                      unit |-> GuiServiceName]])
    /\ file' = FileAfterWrite(GuiConfigPath,
                              FileObject(json_loads(json_dumps(values))), file)
    /\ IF GuiServiceName = CtlServiceName /\ pc \notin {"load_config", "exited"}
       THEN ProcessRestart
       ELSE UNCHANGED <<pc, exitReason, config, idle_minutes,
                        simulate_after_minutes, simulate_activity, system_bus,
                        session_bus, last_idle_state, idle_since, samples,
                        simCalls>>
    /\ UNCHANGED <<DBUS_AVAILABLE, now, clock, tick, log>>

\* control.py lines 23-25: motion-ctl restart
CtlRestart ==
    /\ Len(callLog) < MaxCalls
    /\ pc # "load_config"
    /\ callLog' = Append(callLog,
                         [op |-> "ctl_restart", arg |-> ConfigDict(EmptyObj),
                          result |-> [path |-> CoreConfigPath,
                                      unit |-> CtlServiceName]])
    /\ ProcessRestart
    /\ UNCHANGED <<file, DBUS_AVAILABLE, now, clock, tick, log>>

NextGui ==
    \/ LoadConfig
    \/ SetupLogging(TRUE)
    \/ ReadSettings
    \/ Connect(TRUE)
    \/ \E idle_hint \in BOOLEAN : QueryReturn(Some(idle_hint))
    \/ SimulateReturn(TRUE, 0)
    \/ SleepReturn
    \/ \E values \in GuiConfigs : GuiConfigChanged(values)
    \/ CtlRestart

SpecGui == InitReload /\ [][NextGui]_vars

----------------------------------------------------------------------------
(* The two session-state client operations, lines 56-83, called directly    *)
(* over every outcome of the transport                                      *)

\* what the bus does to a call: the step that raises, if any, and the reply
\* of a call that goes through (a Variant or a bare value)
NoReply == [variant |-> FALSE, value |-> JBool(FALSE)]

Replies ==
    { [variant |-> v, value |-> x] :
        v \in BOOLEAN, x \in {JBool(TRUE), JBool(FALSE), JInt(0), JInt(1)} }

Transports ==
    { [fault |-> f, reply |-> NoReply] :
        f \in {"introspect", "get_interface", "call"} }
    \cup { [fault |-> "none", reply |-> r] : r \in Replies }

Returned(v) == [raised |-> FALSE, value |-> v]

Raised(v) == [raised |-> TRUE, value |-> v]

\* get_logind_idle_hint without the try/except of lines 60 and 68-69
get_logind_idle_hint_NoCatch(avail, tr) ==
    IF ~avail
    THEN Returned(None)
    ELSE IF tr.fault # "none"
         THEN Raised(None)
         ELSE Returned(Some(PyBool(tr.reply.value)))

\* lines 56-69
get_logind_idle_hint(avail, tr) ==
    IF ~avail
    THEN Returned(None)
    ELSE IF tr.fault # "none"
         THEN Returned(None)
         ELSE Returned(Some(PyBool(tr.reply.value)))

\* simulate_user_activity_session if a rejected call counted as made
simulate_user_activity_session_RejectedIsDone(avail, tr) ==
    IF ~avail
    THEN Returned(FALSE)
    ELSE IF tr.fault \in {"introspect", "get_interface"}
         THEN Returned(FALSE)
         ELSE Returned(TRUE)

\* lines 72-83
simulate_user_activity_session(avail, tr) ==
    IF ~avail
    THEN Returned(FALSE)
    ELSE IF tr.fault # "none"
         THEN Returned(FALSE)
         ELSE Returned(TRUE)

InitClient ==
    /\ Init
    /\ file = FileMissing

CallIdleHint(tr) ==
    /\ Len(callLog) < MaxCalls
    /\ callLog' = Append(callLog,
                         [op |-> "get_logind_idle_hint", arg |-> tr,
                          result |-> get_logind_idle_hint(DBUS_AVAILABLE, tr)])
    /\ UNCHANGED <<file, DBUS_AVAILABLE, pc, exitReason, config, idle_minutes,
                   simulate_after_minutes, simulate_activity, system_bus,
                   session_bus, last_idle_state, idle_since, now, clock, tick,
                   log, samples, simCalls>>

CallSimulate(tr) ==
    /\ Len(callLog) < MaxCalls
    /\ callLog' = Append(callLog,
                         [op |-> "simulate_user_activity_session", arg |-> tr,
                          result |->
                            simulate_user_activity_session(DBUS_AVAILABLE, tr)])
    /\ UNCHANGED <<file, DBUS_AVAILABLE, pc, exitReason, config, idle_minutes,
                   simulate_after_minutes, simulate_activity, system_bus,
                   session_bus, last_idle_state, idle_since, now, clock, tick,
                   log, samples, simCalls>>

NextClient ==
    \/ \E tr \in Transports : CallIdleHint(tr)
    \/ \E tr \in Transports : CallSimulate(tr)

SpecClient == InitClient /\ [][NextClient]_vars

----------------------------------------------------------------------------
(* Reading the histories *)

\* the samples that carry a value (a failed query delivers none), in order
RECURSIVE Observed(_)
Observed(q) ==
    IF q = <<>> THEN <<>>
    ELSE IF IsNone(Head(q).h) THEN Observed(Tail(q))
         ELSE <<Head(q)>> \o Observed(Tail(q))

\* the value of the most recent sample that carries one, None if there is none
LastObserved ==
    LET o == Observed(samples)
    IN  IF o = <<>> THEN None ELSE o[Len(o)].h

\* number of maximal runs of idle samples in a sequence of observed samples
RECURSIVE IdleRuns(_, _)
IdleRuns(o, prevIdle) ==
    IF o = <<>> THEN 0
    ELSE (IF Val(Head(o).h) /\ ~prevIdle THEN 1 ELSE 0)
             + IdleRuns(Tail(o), Val(Head(o).h))

\* number of log records with a message
CountLog(message) ==
    Cardinality({i \in 1..Len(log) : log[i].message = message})

\* the time of the first idle sample of the idle run the observed sample i is in
RECURSIVE RunStart(_, _)
RunStart(o, i) ==
    IF i > 1 /\ Val(o[i - 1].h) THEN RunStart(o, i - 1) ELSE o[i].t

\* the time the idle run began in which a simulate call at time t was made
RunStartOfCall(t) ==
    LET o == Observed(samples)
        i == CHOOSE j \in 1..Len(o) : o[j].t = t
    IN  RunStart(o, i)

simulate_delay == simulate_after_minutes * SecondsPerMinute

AllSamplesIdle == \A i \in 1..Len(samples) : samples[i].h = Some(TRUE)

\* the session was reported idle, or not reported, in every sample after t
NoActiveSince(t) ==
    \A i \in 1..Len(samples) : samples[i].t > t => samples[i].h # Some(FALSE)

CallAt(t) == \E k \in 1..Len(simCalls) : simCalls[k].t = t

----------------------------------------------------------------------------
(* C1: in every reachable state idle_since is set exactly when the most     *)
(* recent sample that carried a value was idle; it is None while no sample  *)
(* has been observed.                                                       *)
C1_IdleSinceIffLastSampleIdle ==
    (~IsNone(idle_since)) <=> (LastObserved = Some(TRUE))

\* an idle run that saw a simulate call and then a failed query, after an
\* earlier active sample
C1_Witness ==
    /\ Len(samples) >= 3
    /\ IsNone(samples[Len(samples)].h)
    /\ \E i \in 1..Len(samples) : samples[i].h = Some(FALSE)
    /\ Len(simCalls) >= 1
    /\ ~IsNone(idle_since)

(* C2: the number of "Session idle detected" records equals the number of   *)
(* maximal runs of idle samples; failed queries neither start nor end a run *)
C2_OneIdleEventPerRun ==
    CountLog(IdleDetected) = IdleRuns(Observed(samples), FALSE)

\* two runs, the first of two idle samples around a failed query, with a
\* simulate call made
C2_Witness ==
    /\ CountLog(IdleDetected) = 2
    /\ Len(samples) = 5
    /\ samples[1].h = Some(TRUE)
    /\ IsNone(samples[2].h)
    /\ samples[3].h = Some(TRUE)
    /\ samples[4].h = Some(FALSE)
    /\ samples[5].h = Some(TRUE)
    /\ Len(simCalls) >= 1

(* C3: when the loaded configuration has simulate_activity false, or has no *)
(* such key, simulate_user_activity_session is never called.                *)
ConfigSimulateOff ==
    /\ config.kind = "object"
    /\ \/ "simulate_activity" \notin DOMAIN config.obj
       \/ config.obj["simulate_activity"] = JBool(FALSE)

C3_NoSimulateWhenDisabled ==
    ConfigSimulateOff => simCalls = <<>>

\* the key is absent, the buses are connected and the session has been idle
\* for the configured delay
C3_Witness ==
    /\ config.kind = "object"
    /\ "simulate_activity" \notin DOMAIN config.obj
    /\ pc = "sleep"
    /\ session_bus
    /\ samples # <<>>
    /\ samples[Len(samples)].h = Some(TRUE)
    /\ ~IsNone(idle_since)
    /\ now - Val(idle_since) >= simulate_delay

(* C4: every simulate call is made at a time at least the delay after the   *)
(* first idle sample of its run; after a successful call at time c the idle *)
(* clock is c, and the next call is made no earlier than c plus the delay.  *)
C4_DelayWindow ==
    /\ \A k \in 1..Len(simCalls) :
           simCalls[k].t >= RunStartOfCall(simCalls[k].t) + simulate_delay
    /\ \A k \in 1..(Len(simCalls) - 1) :
           simCalls[k].result = "ok"
               => simCalls[k + 1].t >= simCalls[k].t + simulate_delay
    /\ (/\ simCalls # <<>>
        /\ simCalls[Len(simCalls)].result = "ok"
        /\ NoActiveSince(simCalls[Len(simCalls)].t))
           => idle_since = Some(simCalls[Len(simCalls)].t)

\* continuous idle, a delay of at least a minute, a successful call and a
\* second call after it
C4_Witness ==
    /\ simulate_after_minutes >= 1
    /\ AllSamplesIdle
    /\ Len(simCalls) = 2
    /\ simCalls[1].result = "ok"
    /\ simCalls[1].t >= samples[1].t + simulate_delay
    /\ simCalls[2].t >= simCalls[1].t + simulate_delay

(* C5: an iteration whose query delivers no sample leaves idle_since and    *)
(* last_idle_state as they were, makes no simulate call and goes to sleep.  *)
FailedQueryStep ==
    /\ Len(samples') = Len(samples) + 1
    /\ IsNone(samples'[Len(samples')].h)

C5_FailedQueryChangesNothing ==
    [][FailedQueryStep =>
          /\ idle_since' = idle_since
          /\ last_idle_state' = last_idle_state
          /\ simCalls' = simCalls
          /\ pc' = "sleep"]_vars

\* a failed query in an iteration where simulation is enabled and the idle
\* period has reached the delay
C5_Witness ==
    /\ pc = "sleep"
    /\ samples # <<>>
    /\ IsNone(samples[Len(samples)].h)
    /\ samples[Len(samples)].t = now
    /\ simulate_activity
    /\ session_bus
    /\ simulate_after_minutes >= 1
    /\ ~IsNone(idle_since)
    /\ now - Val(idle_since) >= simulate_delay

(* C6 (as claimed): when the simulate call of an iteration fails, an error  *)
(* is logged and idle_since is what it was before the call.                 *)
FailedSimulateStep ==
    /\ pc = "simulate"
    /\ pc' = "sleep"
    /\ simCalls'[Len(simCalls')].result = "failed"

SimulationFailedLogged ==
    /\ Len(log') = Len(log) + 1
    /\ SubSeq(log', 1, Len(log)) = log
    /\ log'[Len(log')].levelname = "ERROR"
    /\ log'[Len(log')].message = SimulationFailed

EveryCallFails ==
    \A k \in 1..Len(simCalls) : simCalls[k].result \in {"failed", "pending"}

WindowStart(t) ==
    LET before == {k \in 1..Len(simCalls) : simCalls[k].t < t}
    IN  IF before = {}
        THEN samples[1].t
        ELSE simCalls[CHOOSE k \in before : \A j \in before : j <= k].t

C8_OnlySignalEndsLoop ==
    [][(pc \in {"query", "simulate", "sleep"} /\ pc' # pc) =>
          IF pc' = "exited"
          THEN exitReason' = "signal"
          ELSE \/ pc = "query" /\ pc' \in {"simulate", "sleep"}
               \/ pc = "simulate" /\ pc' = "sleep"
               \/ pc = "sleep" /\ pc' = "query"]_vars

\* an iteration starts after a failed simulate call, a caught exception and
\* a failed query
C8_Witness ==
    /\ pc = "query"
    /\ CountLog(SimulationFailed) >= 1
    /\ CountLog(MonitorError) >= 1
    /\ \E i \in 1..Len(samples) : IsNone(samples[i].h)

(* C9 (as claimed): the monitor ends only on the shutdown signal or when    *)
(* the log sink cannot be set up; no failure of the session-state service,  *)
(* the connection at start-up included, ends it.                            *)
C9_OnlySignalOrLogSetupEnds ==
    pc = "exited" => exitReason \in {"signal", "log_setup_failed"}

(* C10: when the config file is missing, unreadable or malformed,           *)
(* load_config returns exactly the defaults (10, 5, false) and raises       *)
(* nothing: the monitor goes on to set up logging and runs with them.       *)
C10_DefaultsOnBadFile ==
    (config # ConfigUnset /\ file.kind \in {"missing", "unreadable", "malformed"})
        => /\ config.kind = "object"
           /\ DOMAIN config.obj = ConfigKeys
           /\ config.obj["idle_minutes"] = JInt(10)
           /\ config.obj["simulate_after_minutes"] = JInt(5)
           /\ config.obj["simulate_activity"] = JBool(FALSE)
           /\ exitReason # "config_error"

\* the loop runs with the defaults after a malformed file was loaded
C10_Witness ==
    /\ file.kind = "malformed"
    /\ pc = "sleep"
    /\ config = DefaultConfig
    /\ idle_minutes = 10
    /\ simulate_after_minutes = 5
    /\ ~simulate_activity

(* C11: for a well-formed file with any subset of the three keys and any    *)
(* unknown key, the settings the monitor runs with are, key by key, the     *)
(* file's value when the key is present and the default (10, 5, false)      *)
(* when it is absent; an unknown key changes nothing.                       *)
WellFormedFile ==
    /\ file.kind = "object"
    /\ \A k \in DOMAIN file.obj \cap {"idle_minutes", "simulate_after_minutes"} :
           file.obj[k].type = "int"
    /\ "simulate_activity" \in DOMAIN file.obj
           => file.obj["simulate_activity"].type = "bool"

SettingsRead == pc \in {"connect", "query", "simulate", "sleep"}

C11_PresentKeysFromFileAbsentFromDefaults ==
    WellFormedFile =>
        /\ exitReason # "config_error"
        /\ SettingsRead =>
              /\ idle_minutes =
                    (IF "idle_minutes" \in DOMAIN file.obj
                     THEN file.obj["idle_minutes"].n ELSE 10)
              /\ simulate_after_minutes =
                    (IF "simulate_after_minutes" \in DOMAIN file.obj
                     THEN file.obj["simulate_after_minutes"].n ELSE 5)
              /\ simulate_activity =
                    (IF "simulate_activity" \in DOMAIN file.obj
                     THEN file.obj["simulate_activity"].b ELSE FALSE)

\* a file with one known key and an unknown one: one value from the file,
\* two defaults
C11_Witness ==
    /\ file.kind = "object"
    /\ DOMAIN file.obj = {"simulate_after_minutes", "theme"}
    /\ pc = "query"
    /\ idle_minutes = 10
    /\ simulate_after_minutes = 2
    /\ ~simulate_activity

(* C12 (as claimed): whatever the config file holds, loading it never stops *)
(* the monitor from starting: no start-up ends on the configuration.        *)
C12_ConfigNeverBlocksStartup ==
    exitReason # "config_error"

(* C13: round trip: when a configuration with explicit values for all three *)
(* keys is written to the file, the next load_config returns exactly those  *)
(* three values, none replaced by a default.                                *)
C13_WrittenValuesAreLoaded ==
    \A i \in 1..(Len(callLog) - 1) :
        (callLog[i].op = "write" /\ callLog[i + 1].op = "load_config")
            => /\ callLog[i + 1].result.kind = "object"
               /\ DOMAIN callLog[i + 1].result.obj = ConfigKeys
               /\ \A k \in ConfigKeys :
                      callLog[i + 1].result.obj[k] = callLog[i].arg.obj[k]

\* values that all differ from the defaults, one of them 0, written and loaded
C13_Witness ==
    /\ Len(callLog) = 2
    /\ callLog[1].op = "write"
    /\ callLog[1].arg.obj["idle_minutes"] = JInt(120)
    /\ callLog[1].arg.obj["simulate_after_minutes"] = JInt(0)
    /\ callLog[1].arg.obj["simulate_activity"] = JBool(TRUE)
    /\ callLog[2].op = "load_config"
    /\ callLog[2].result = callLog[1].arg

(* C14: idempotence: load_config leaves the file as it is, and a call that  *)
(* follows another call of load_config returns what that one returned,      *)
(* whatever the file holds.                                                 *)
LoadConfigStep ==
    /\ Len(callLog') = Len(callLog) + 1
    /\ callLog'[Len(callLog')].op = "load_config"

C14_LoadConfigIdempotent ==
    [][LoadConfigStep =>
          /\ file' = file
          /\ (callLog # <<>> /\ callLog[Len(callLog)].op = "load_config")
                 => callLog'[Len(callLog')].result
                        = callLog[Len(callLog)].result]_vars

\* two calls in a row on a file that does not exist
C14_Witness ==
    /\ Len(callLog) = 2
    /\ callLog[1].op = "load_config"
    /\ callLog[2].op = "load_config"
    /\ callLog[1].arg.kind = "missing"
    /\ file.kind = "missing"
    /\ callLog[2].result = callLog[1].result

(* C15: the configuration is read once, before the first tick: config is    *)
(* assigned only by the load at start-up, from the file as it is then; a    *)
(* change of the file changes neither config nor the delay or the flag of   *)
(* the running loop, whose simulate decisions follow the loaded values; the *)
(* new file is read only by the process started after a restart.            *)
LoopPositions == {"query", "simulate", "sleep"}

C15_ConfigReadOnceAtStart ==
    [][/\ config' # config =>
             \/ pc = "load_config" /\ config' = load_config(file)
             \/ pc' = "load_config" /\ config' = ConfigUnset
       /\ (pc \in LoopPositions /\ pc' \in LoopPositions) =>
             /\ simulate_after_minutes' = simulate_after_minutes
             /\ simulate_activity' = simulate_activity
       /\ file' # file =>
             UNCHANGED <<config, pc, simulate_after_minutes, simulate_activity,
                         idle_since, simCalls>>
       /\ pc \in LoopPositions =>
             /\ simulate_after_minutes =
                   Val(PyInt(ConfigGet(config, "simulate_after_minutes",
                                       JInt(DefaultSimulateAfterMinutes))))
             /\ simulate_activity =
                   PyBool(ConfigGet(config, "simulate_activity", JBool(FALSE)))
             /\ ~simulate_activity => simCalls = <<>>]_vars

\* the loop runs with simulation off as loaded, the file now says on with no
\* delay, the session is idle and no simulate call was made
C15_Witness ==
    /\ pc = "sleep"
    /\ config.kind = "object"
    /\ "simulate_activity" \notin DOMAIN config.obj
    /\ file.kind = "object"
    /\ "simulate_activity" \in DOMAIN file.obj
    /\ file.obj["simulate_activity"] = JBool(TRUE)
    /\ file.obj["simulate_after_minutes"] = JInt(0)
    /\ Len(samples) >= 2
    /\ AllSamplesIdle
    /\ simCalls = <<>>

(* C16: a sample that carries a value different from last_idle_state sets   *)
(* last_idle_state to the sample; it appends one WARNING "Session idle      *)
(* detected" record when the value is idle and leaves the log as it is when *)
(* the value is active.                                                     *)
TransitionStep ==
    /\ Len(samples') = Len(samples) + 1
    /\ ~IsNone(samples'[Len(samples')].h)
    /\ samples'[Len(samples')].h # last_idle_state

C16_OnlyIdleTransitionLogged ==
    [][TransitionStep =>
         LET s == samples'[Len(samples')]
         IN  /\ last_idle_state' = s.h
             /\ Val(s.h) => log' = Append(log, LogRecord(s.t, "WARNING", IdleDetected))
             /\ ~Val(s.h) => log' = log]_vars

\* an idle sample then an active one: both changed last_idle_state, the log
\* holds the one record of the idle transition
C16_Witness ==
    /\ Len(samples) = 2
    /\ samples[1].h = Some(TRUE)
    /\ samples[2].h = Some(FALSE)
    /\ last_idle_state = Some(FALSE)
    /\ log = <<LogRecord(samples[1].t, "WARNING", IdleDetected)>>

(* C17: iterations do not overlap: a simulate call is outstanding only      *)
(* while the monitor awaits it (or was stopped there), never two at once; a *)
(* new tick starts only from the sleep, with no call outstanding; the sleep *)
(* begins only when the call of the iteration has returned or raised; and   *)
(* a tick makes at most one query and at most one simulate call.            *)
PendingCall ==
    /\ simCalls # <<>>
    /\ simCalls[Len(simCalls)].result = "pending"

C17_IterationsDoNotOverlap ==
    [][/\ PendingCall => pc \in {"simulate", "exited"}
       /\ \A i \in 1..(Len(simCalls) - 1) : simCalls[i].result # "pending"
       /\ tick' # tick =>
             /\ pc = "sleep"
             /\ pc' = "query"
             /\ tick' = tick + 1
             /\ ~PendingCall
             /\ UNCHANGED <<samples, simCalls, log, last_idle_state, idle_since>>
       /\ (pc' = "sleep" /\ pc # "sleep") =>
             /\ pc \in {"query", "simulate"}
             /\ simCalls' # <<>> => simCalls'[Len(simCalls')].result # "pending"
       /\ Len(samples) <= tick + 1
       /\ Len(simCalls) <= tick + 1
       /\ \A i, j \in 1..Len(simCalls) : i < j => simCalls[i].t < simCalls[j].t]_vars

\* three ticks have each made a query and a simulate call; every call had
\* returned when the sleep after it began
C17_Witness ==
    /\ pc = "sleep"
    /\ tick = 2
    /\ Len(samples) = 3
    /\ Len(simCalls) = 3
    /\ \A i \in 1..3 : simCalls[i].result \in {"ok", "failed"}

(* C18: a shutdown signal stops the loop at a tick boundary only: the step  *)
(* that stops the monitor is never taken while an iteration awaits its      *)
(* query or its simulate call, and no simulate call is left outstanding.    *)
C18_ShutdownOnlyBetweenTicks ==
    [][(pc # "exited" /\ pc' = "exited" /\ exitReason' = "signal") =>
         /\ pc \notin {"query", "simulate"}
         /\ ~PendingCall']_vars

(* C19: every iteration whose query delivers no sample appends a record to  *)
(* the log before it goes to sleep.                                         *)
C19_FailedQueryAlwaysLogged ==
    [][FailedQueryStep =>
         /\ Len(log') = Len(log) + 1
         /\ pc' = "sleep"]_vars

(* C20: no call of a client operation raises; get_logind_idle_hint returns  *)
(* None when the library is unavailable or a step of the transport fails    *)
(* and else the truth value of the reply; simulate_user_activity_session    *)
(* returns False in those cases and else True.                              *)
TransportFails(tr) == ~DBUS_AVAILABLE \/ tr.fault # "none"

C20_ClientOperationsNeverRaise ==
    \A i \in 1..Len(callLog) :
        LET c == callLog[i]
        IN  /\ ~c.result.raised
            /\ c.op = "get_logind_idle_hint" =>
                  IF TransportFails(c.arg)
                  THEN c.result.value = None
                  ELSE c.result.value \in {Some(TRUE), Some(FALSE)}
                       /\ Val(c.result.value) = PyBool(c.arg.reply.value)
            /\ c.op = "simulate_user_activity_session" =>
                  IF TransportFails(c.arg)
                  THEN c.result.value = FALSE
                  ELSE c.result.value = TRUE

\* with the library there, a property read that fails gave None and a
\* rejected call gave False
C20_Witness ==
    /\ DBUS_AVAILABLE
    /\ Len(callLog) = 2
    /\ callLog[1].op = "get_logind_idle_hint"
    /\ callLog[1].arg.fault = "call"
    /\ callLog[1].result = Returned(None)
    /\ callLog[2].op = "simulate_user_activity_session"
    /\ callLog[2].arg.fault = "call"
    /\ callLog[2].result = Returned(FALSE)

(* C21: every iteration that has started ends: from a state where the       *)
(* monitor awaits its query or its simulate call it eventually reaches the  *)
(* sleep (or is stopped), whatever the remote service does.                 *)
C21_EveryTickCompletes ==
    (pc \in {"query", "simulate"}) ~> (pc \in {"sleep", "exited"})

(* C22: the log only grows: in every step, ticks, restarts and the          *)
(* setup_logging of a restarted process included, the log before the step   *)
(* is a prefix of the log after it.                                         *)
C22_LogAppendOnly ==
    [][/\ Len(log') >= Len(log)
       /\ SubSeq(log', 1, Len(log)) = log]_vars

\* a restarted process has set up logging again and logged its first idle
\* transition behind the record the process before it had written
C22_Witness ==
    /\ Len(callLog) = 1
    /\ callLog[1].op = "restart"
    /\ pc = "sleep"
    /\ Len(samples) = 1
    /\ Len(log) = 2
    /\ log[1].asctime < log[2].asctime

(* C23: when setup_logging fails the monitor stops before the first tick,   *)
(* with no query and no simulate call made, and the process has emitted a   *)
(* diagnostic.                                                              *)
C23_LogSetupFailureAbortsWithDiagnostic ==
    (pc = "exited" /\ exitReason = "log_setup_failed") =>
        /\ samples = <<>>
        /\ simCalls = <<>>
        /\ ~system_bus /\ ~session_bus
        /\ log \o MainDiagnostic(exitReason) # <<>>

(* C24: the path setup_logging returns names an existing file called        *)
(* activity.log under .local/state, and it is the file the debug and the    *)
(* health tool read: each tool finds the file and counts in it the records  *)
(* the monitor has logged.                                                  *)
C24_LogPathIsActivityLogOfTooling ==
    \A i \in 1..Len(callLog) :
        LET c == callLog[i]
        IN  IF c.op = "setup_logging"
            THEN /\ c.result.exists
                 /\ c.result.path[1] = ".local" /\ c.result.path[2] = "state"
                 /\ c.result.path[4] = "activity.log"
                 /\ c.result.path = DebugLogFile
                 /\ c.result.path = HealthLogFile
            ELSE /\ c.result.log_exists
                 /\ c.result.total_entries = Len(c.arg)

(* C25: last_idle_state is None exactly while no sample with a value has    *)
(* been observed, and is else the value of the most recent such sample;     *)
(* once it holds a value no step makes it None again.                       *)
C25_LastIdleStateIsLastObserved ==
    [][/\ last_idle_state = LastObserved
       /\ last_idle_state' = LastObserved'
       /\ ~IsNone(last_idle_state) => ~IsNone(last_idle_state')]_vars

\* unknown through a first failed query, then active, and still active
\* after a second failed query
C25_Witness ==
    /\ Len(samples) = 3
    /\ IsNone(samples[1].h)
    /\ samples[2].h = Some(FALSE)
    /\ IsNone(samples[3].h)
    /\ last_idle_state = Some(FALSE)

(* C26: a simulate call is made only by the iteration whose own sample is   *)
(* idle, at that sample's time, and at most one per tick: the step that     *)
(* makes a call appends exactly one call and one idle sample of the same    *)
(* time, and an iteration with an active sample or with none makes no call, *)
(* whatever idle_since was.                                                 *)
C26_SimulateOnlyOnOwnIdleSample ==
    [][/\ Len(simCalls') > Len(simCalls) =>
             /\ Len(simCalls') = Len(simCalls) + 1
             /\ Len(samples') = Len(samples) + 1
             /\ samples'[Len(samples')].h = Some(TRUE)
             /\ simCalls'[Len(simCalls')].t = samples'[Len(samples')].t
       /\ (Len(samples') > Len(samples) /\ samples'[Len(samples')].h # Some(TRUE)) =>
             Len(simCalls') = Len(simCalls)
       /\ Len(simCalls) <= tick + 1
       /\ \A i \in 1..Len(simCalls) :
             \E j \in 1..Len(samples) :
                 samples[j].t = simCalls[i].t /\ samples[j].h = Some(TRUE)]_vars

\* with idle_since set by an earlier idle sample and the delay over, a tick
\* without a sample and a tick with an active sample made no call; the two
\* calls are those of the idle ticks
C26_Witness ==
    /\ Len(samples) = 4
    /\ samples[1].h = Some(TRUE)
    /\ IsNone(samples[2].h)
    /\ samples[3].h = Some(TRUE)
    /\ samples[4].h = Some(FALSE)
    /\ Len(simCalls) = 2
    /\ simCalls[1].t = samples[1].t
    /\ simCalls[2].t = samples[3].t
    /\ pc = "sleep"

(* C27: failed queries do not restart the idle clock: with simulation       *)
(* enabled and the session bus connected, if sample i is idle, no sample    *)
(* after it up to sample k is active, no simulate call was made after       *)
(* sample i and before sample k, and sample k is idle and at least the      *)
(* delay after sample i, then the tick of sample k makes a simulate call,   *)
(* however many of the samples between them are failed queries.             *)
CallAtTime(t) == \E c \in 1..Len(simCalls) : simCalls[c].t = t

C27_FailedQueriesKeepIdleClock ==
    (simulate_activity /\ session_bus) =>
        \A i, k \in 1..Len(samples) :
            (/\ i < k
             /\ samples[i].h = Some(TRUE)
             /\ samples[k].h = Some(TRUE)
             /\ \A j \in i..k : samples[j].h # Some(FALSE)
             /\ \A c \in 1..Len(simCalls) :
                    ~(samples[i].t < simCalls[c].t /\ simCalls[c].t < samples[k].t)
             /\ samples[k].t >= samples[i].t + simulate_delay)
                => CallAtTime(samples[k].t)

\* a delay of one minute: idle at the start, two failed queries, and the
\* idle sample a minute or more after the first is the one that calls
C27_Witness ==
    /\ simulate_after_minutes = 1
    /\ Len(samples) = 4
    /\ samples[1].h = Some(TRUE)
    /\ IsNone(samples[2].h)
    /\ IsNone(samples[3].h)
    /\ samples[4].h = Some(TRUE)
    /\ Len(simCalls) = 1
    /\ simCalls[1].t = samples[4].t
    /\ samples[4].t >= samples[1].t + simulate_delay

(* C28: with simulation enabled and the session bus connected, once every   *)
(* query reports idle, each tick is followed by a simulate call no later    *)
(* than the delay after it: a tick n that starts with m calls made leads to *)
(* a state with more than m calls, reached by tick n plus the delay in      *)
(* ticks (for every tick that leaves that many ticks within MaxTicks).      *)
DelayTicks(d) ==
    (d * SecondsPerMinute + check_interval_seconds - 1) \div check_interval_seconds

C28_SimulateRecursWhileIdle ==
    \A n \in 0..MaxTicks, m \in 0..MaxTicks, d \in 0..1 :
        (/\ pc = "query"
         /\ simulate_activity /\ session_bus
         /\ simulate_after_minutes = d
         /\ tick = n
         /\ n >= IdleFromTick
         /\ n + DelayTicks(d) < MaxTicks
         /\ Len(simCalls) = m)
            ~> (Len(simCalls) > m /\ tick <= n + DelayTicks(d))

\* a delay of one minute: after an active first sample the session is idle
\* from the second tick on and the call is made two ticks later
C28_Witness ==
    /\ simulate_after_minutes = 1
    /\ Len(samples) = 4
    /\ samples[1].h = Some(FALSE)
    /\ samples[2].h = Some(TRUE)
    /\ Len(simCalls) = 1
    /\ simCalls[1].t = samples[4].t
    /\ simCalls[1].t = samples[2].t + simulate_delay

(* C29: idle_minutes does not influence the monitor: the tracker state, the *)
(* simulate calls and the log are, in every state of the loop, the values   *)
(* of a function of the samples, the answers to the simulate calls, the     *)
(* delay, the flag and the session bus alone, so that two runs which differ *)
(* only in idle_minutes and get the same samples and answers agree on them. *)
AnswerAt(t) ==
    IF \E c \in 1..Len(simCalls) : simCalls[c].t = t
    THEN (CHOOSE r \in {simCalls[c].result : c \in 1..Len(simCalls)} :
              \E c \in 1..Len(simCalls) : simCalls[c].t = t /\ simCalls[c].result = r)
    ELSE "none"

TrackOne(acc, s, delay, enabled, bus) ==
    LET since1 == IF IsNone(s.h) THEN acc.since
                  ELSE IF Val(s.h)
                       THEN (IF IsNone(acc.since) THEN Some(s.t) ELSE acc.since)
                       ELSE None
        last1  == IF IsNone(s.h) THEN acc.last ELSE s.h
        log1   == acc.log
                    \o (IF s.h = Some(TRUE) /\ acc.last # Some(TRUE)
                        THEN <<LogRecord(s.t, "WARNING", IdleDetected)>> ELSE <<>>)
                    \o (IF IsNone(s.h) /\ s.t % StatusPeriodSeconds = 0
                        THEN <<LogRecord(s.t, "WARNING", NoDBusStatus)>> ELSE <<>>)
        due    == /\ s.h = Some(TRUE)
                  /\ enabled
                  /\ bus
                  /\ s.t - Val(since1) >= delay * SecondsPerMinute
        answer == AnswerAt(s.t)
    IN  IF ~due
        THEN [since |-> since1, last |-> last1, log |-> log1, calls |-> acc.calls]
        ELSE [since |-> IF answer \in {"ok", "failed"} THEN Some(s.t) ELSE since1,
              last  |-> last1,
              log   |-> log1 \o (IF answer = "failed"
                                 THEN <<LogRecord(s.t, "ERROR", SimulationFailed)>>
                                 ELSE <<>>),
              calls |-> Append(acc.calls, [t |-> s.t, result |-> answer])]

RECURSIVE Track(_, _, _, _, _)
Track(acc, q, delay, enabled, bus) ==
    IF q = <<>> THEN acc
    ELSE Track(TrackOne(acc, Head(q), delay, enabled, bus), Tail(q),
               delay, enabled, bus)

TrackStart == [since |-> None, last |-> None, log |-> <<>>, calls |-> <<>>]

C29_IdleMinutesDoesNotInfluence ==
    pc \in LoopPositions =>
        [since |-> idle_since, last |-> last_idle_state, log |-> log,
         calls |-> simCalls]
            = Track(TrackStart, samples, simulate_after_minutes,
                    simulate_activity, session_bus)

\* idle_minutes is two hours and the session has been idle for a minute:
\* two calls were made, one of them failed and was logged
C29_Witness ==
    /\ idle_minutes = 120
    /\ pc = "sleep"
    /\ Len(samples) = 3
    /\ AllSamplesIdle
    /\ Len(simCalls) >= 2
    /\ \E c \in 1..Len(simCalls) : simCalls[c].result = "failed"
    /\ Len(log) >= 2

(* C30: what the settings window saves is what the monitor loads next: the  *)
(* save writes the file load_config reads, the unit the window restarts is  *)
(* the unit motion-ctl controls, so a running monitor is restarted by the   *)
(* save, and a load after a save yields the saved values.                   *)
GuiSaves ==
    {i \in 1..Len(callLog) : callLog[i].op = "gui_config_changed"}

LastGuiSave ==
    callLog[CHOOSE i \in GuiSaves : \A j \in GuiSaves : j <= i]

C30_GuiSaveIsWhatMonitorLoads ==
    [][/\ (Len(callLog') > Len(callLog)
           /\ callLog'[Len(callLog')].op = "gui_config_changed") =>
             /\ callLog'[Len(callLog')].result.path = CoreConfigPath
             /\ callLog'[Len(callLog')].result.unit = CtlServiceName
             /\ file' = FileObject(callLog'[Len(callLog')].arg.obj)
             /\ pc \notin {"load_config", "exited"} => pc' = "load_config"
       /\ (pc = "load_config" /\ pc' = "setup_logging" /\ GuiSaves # {}) =>
             config' = LastGuiSave.arg]_vars

====
